---- MODULE Spec2Model ----
(***************************************************************************)
(* Model of src/main.py, the identity-verification orchestration script:  *)
(* module configuration, optimise_payload, start_verification_session,    *)
(* upload_document_resource, poll_verification_scores and the __main__    *)
(* driver.  The module is either run as a script (name = "__main__") or    *)
(* imported, in which case a caller invokes its functions one at a time.   *)
(* The vendor, the file system and the clock are the environment: every    *)
(* response, image and environment value is drawn from a small set.       *)
(***************************************************************************)
EXTENDS Integers, Sequences, FiniteSets, TLC

\* ------------------------------------------------------------------ bounds

\* Calls an importing caller makes to the module's functions.
MaxCalls == 2
\* Largest max_retries an importing caller passes to poll_verification_scores.
MaxRetries == 2

\* ------------------------------------------------------------ Python values

\* Python's None, as the value of a name or a return value.
None == "None"

\* bool(v) of an environment value or a token (lines 28, 112): None and the
\* empty string are falsy.
TruthyNotNone(v) == v # None
Truthy(v) == v # None /\ v # ""

\* max_retries=5, the default the driver uses (line 90).
DefaultMaxRetries == 5

\* ----------------------------------------------------------- environment

\* os.getenv("IDENTITY_VENDOR_KEY") after load_dotenv (line 25).
ApiKeyValues == {None, "", "vendor-key"}
\* os.getenv("PII_ENCRYPTION_KEY") after load_dotenv (line 26).  The last
\* value stands for a 32-byte url-safe base64 key, "not-a-fernet-key" for a
\* non-empty value that is none.
GoodFernetKey == "base64-32-byte-key"
EncKeyValues == {None, "", "not-a-fernet-key", GoodFernetKey}
\* Fernet(key) raises ValueError unless the key decodes to 32 bytes (line 32).
FernetAccepts(k) == k = GoodFernetKey

\* __name__ of the module (line 105).
Names == {"__main__", "imported"}

\* --------------------------------------------------------------- vendor

\* Status codes the vendor answers with.
Statuses == {200, 202, 500}
\* Response.raise_for_status() raises HTTPError for 4xx and 5xx (line 55).
RaisesForStatus(s) == 400 <= s /\ s < 600
\* "success" as HTTP defines it, 2xx.
SuccessStatus(s) == 200 <= s /\ s < 300

\* Response bodies, as text.
StartBodies == {"<html>", "[]", "{}", "{session_token: ''}", "{session_token: 'abc123'}"}
CaptureBodies == {"<html>", "{status: 'received'}", "{error: 'rejected'}"}
ResultBodies == {"<html>", "null", "{score: 97}"}

\* Response.json() (lines 56, 85, 101): raises JSONDecodeError on a body that
\* is not JSON, otherwise gives the Python value the text denotes.
JsonValid(b) == b # "<html>"
Json(b) ==
    CASE b = "null" -> None
      [] b = "[]" -> "list()"
      [] b = "{}" -> "dict()"
      [] b = "{session_token: ''}" -> "dict(session_token='')"
      [] b = "{session_token: 'abc123'}" -> "dict(session_token='abc123')"
      [] b = "{status: 'received'}" -> "dict(status='received')"
      [] b = "{error: 'rejected'}" -> "dict(error='rejected')"
      [] b = "{score: 97}" -> "dict(score=97)"

\* Whether a parsed value has a .get method (line 56): only a dict has.
IsDict(v) == v \notin {None, "list()"}
\* d.get("session_token") of a parsed dict (line 56).
GetSessionToken(d) ==
    CASE d = "dict(session_token='abc123')" -> "abc123"
      [] d = "dict(session_token='')" -> ""
      [] OTHER -> None

\* What a request comes back with: no response at all (requests raises
\* ConnectionError), or a response with a status and a body.
NoResponse == [net |-> TRUE, status |-> 0, body |-> ""]
Responses(bodies) ==
    {NoResponse} \cup [net : {FALSE}, status : Statuses, body : bodies]

\* One entry of the vendor's request log.
LogEntry(ep, r) == [ep |-> ep, net |-> r.net, status |-> r.status]

\* ---------------------------------------------------------------- state

VARIABLES
    apiKey,      \* API_KEY (line 25)
    encKey,      \* ENCRYPTION_KEY (line 26)
    name,        \* __name__
    pc,          \* the line the program is at
    ended,       \* the function whose call has just ended, "none" inside a call
    error,       \* the exception the last call ended with, None if it returned
    ret,         \* the value the last call returned
    token,       \* the driver's token (line 111)
    results,     \* the driver's results (line 116)
    calls,       \* the vendor's request log
    mark,        \* Len(calls) when the current call was entered
    response,    \* the last response received
    files,       \* temporary files that exist
    nextFile,    \* number of the next temporary file
    callFiles,   \* temporary files created during the current upload call
    returned,    \* paths optimise_payload has returned
    completed,   \* functions that have returned a value
    ready_path,  \* upload_document_resource's ready_path (line 70)
    max_retries, \* poll_verification_scores's max_retries
    i,           \* poll_verification_scores's loop variable
    sleeps,      \* the time.sleep durations of the current poll call
    nCalls       \* calls the importing caller has made

vars == <<apiKey, encKey, name, pc, ended, error, ret, token, results, calls,
          mark, response, files, nextFile, callFiles, returned, completed,
          ready_path, max_retries, i, sleeps, nCalls>>

envVars == <<apiKey, encKey, name>>
uploadVars == <<files, nextFile, callFiles, returned, ready_path>>
pollVars == <<max_retries, i, sleeps>>

Init ==
    /\ apiKey \in ApiKeyValues
    /\ encKey \in EncKeyValues
    /\ name \in Names
    /\ pc = "load"
    /\ ended = "none"
    /\ error = None
    /\ ret = None
    /\ token = None
    /\ results = None
    /\ calls = <<>>
    /\ mark = 0
    /\ response = NoResponse
    /\ files = {}
    /\ nextFile = 1
    /\ callFiles = {}
    /\ returned = {}
    /\ completed = {}
    /\ ready_path = None
    /\ max_retries = 0
    /\ i = 0
    /\ sleeps = <<>>
    /\ nCalls = 0

\* ------------------------------------------------------- call and return

\* Where control goes when function fn returns: to the driver's next line,
\* or back to the importing caller.
After(fn) ==
    IF name = "__main__"
    THEN CASE fn = "start" -> "main_112"
           [] fn = "upload" -> "main_115"
           [] fn = "poll" -> "main_117"
    ELSE "idle"

\* Function fn returns v.
Return(fn, v) ==
    /\ pc' = After(fn)
    /\ ended' = fn
    /\ error' = None
    /\ ret' = v
    /\ completed' = completed \cup {fn}

\* Function fn raises e: nothing in the driver catches it, so the process
\* dies; an importing caller gets the exception.
Raise(fn, e) ==
    /\ pc' = IF name = "__main__" THEN "crashed" ELSE "idle"
    /\ ended' = fn
    /\ error' = e
    /\ ret' = None
    /\ UNCHANGED completed

\* A call of a function is entered at line entry.
Enter(entry) ==
    /\ pc' = entry
    /\ ended' = "none"
    /\ error' = None
    /\ ret' = None
    /\ mark' = Len(calls)
    /\ UNCHANGED completed

\* The requests of the current (or last) call.
Requests == SubSeq(calls, mark + 1, Len(calls))

\* -------------------------------------------------- module configuration

\* Lines 24-32: the credentials are read and checked, the cipher is built.
LoadConfig ==
    /\ pc = "load"
    /\ IF ~Truthy(apiKey) \/ ~Truthy(encKey)
       THEN /\ pc' = "crashed"
            /\ error' = "EnvironmentError"
       ELSE IF ~FernetAccepts(encKey)
       THEN /\ pc' = "crashed"
            /\ error' = "ValueError"
       ELSE /\ pc' = IF name = "__main__" THEN "main_111" ELSE "idle"
            /\ error' = None
    /\ UNCHANGED <<envVars, ended, ret, token, results, calls, mark, response,
                   uploadVars, completed, pollVars, nCalls>>

\* ------------------------------------------- start_verification_session

\* Lines 49-56: one POST to sessions/start; raise_for_status; the token of
\* the parsed body.
start_verification_session ==
    /\ pc = "start_54"
    /\ \E r \in Responses(StartBodies) :
        /\ calls' = Append(calls, LogEntry("sessions/start", r))
        /\ response' = r
        /\ IF r.net THEN Raise("start", "ConnectionError") /\ UNCHANGED token
           ELSE IF RaisesForStatus(r.status)
           THEN Raise("start", "HTTPError") /\ UNCHANGED token
           ELSE IF ~JsonValid(r.body)
           THEN Raise("start", "JSONDecodeError") /\ UNCHANGED token
           ELSE IF ~IsDict(Json(r.body))
           THEN Raise("start", "AttributeError") /\ UNCHANGED token
           ELSE /\ Return("start", GetSessionToken(Json(r.body)))
                /\ token' = IF name = "__main__"
                            THEN GetSessionToken(Json(r.body)) ELSE token
    /\ UNCHANGED <<envVars, results, mark, uploadVars, pollVars, nCalls>>

\* ------------------------------------------------------ optimise_payload

\* tempfile.NamedTemporaryFile(suffix=".png", delete=False).name (line 42).
TempName(n) == "/tmp/tmp" \o ToString(n) \o ".png"

\* What the image makes of lines 40-43: Image.open or thumbnail raises, or
\* img.save raises after the temporary file was created, or all succeed.
ImageOutcomes == {"open_raises", "save_raises", "saved"}

\* Lines 34-47, called at line 70: the path of the re-encoded temporary
\* file, or None when anything in the try block raised.
optimise_payload ==
    /\ pc = "upload_70"
    /\ \E img \in ImageOutcomes :
        IF img = "open_raises"
        THEN /\ ready_path' = None
             /\ UNCHANGED <<files, nextFile, callFiles, returned>>
        ELSE /\ files' = files \cup {TempName(nextFile)}
             /\ callFiles' = callFiles \cup {TempName(nextFile)}
             /\ nextFile' = nextFile + 1
             /\ IF img = "save_raises"
                THEN /\ ready_path' = None
                     /\ UNCHANGED returned
                ELSE /\ ready_path' = TempName(nextFile)
                     /\ returned' = returned \cup {TempName(nextFile)}
    /\ pc' = "upload_73"
    /\ UNCHANGED <<envVars, ended, error, ret, token, results, calls, mark,
                   response, completed, pollVars, nCalls>>

\* ---------------------------------------------- upload_document_resource

\* Lines 86-88, for a path: the file is removed if it exists.
FinallyKeep(path, fs) == fs
Finally(path, fs) == IF path \in fs THEN fs \ {path} ELSE fs

\* Lines 72-82: the optimised file is read and the payload built.  open(None)
\* raises TypeError, and so does os.path.exists(None) in the finally block
\* (lines 86-87), so the call ends with a TypeError and nothing is removed.
upload_read_unguarded ==
    /\ pc = "upload_73"
    /\ pc' = "upload_84"
    /\ UNCHANGED <<envVars, ended, error, ret, token, results, calls, mark,
                   response, uploadVars, completed, pollVars, nCalls>>
upload_read ==
    /\ pc = "upload_73"
    /\ IF ready_path = None
       THEN /\ Raise("upload", "TypeError")
            /\ UNCHANGED files
       ELSE IF ready_path \notin files
       THEN /\ Raise("upload", "FileNotFoundError")
            /\ files' = Finally(ready_path, files)
       ELSE /\ pc' = "upload_84"
            /\ UNCHANGED <<ended, error, ret, completed, files>>
    /\ UNCHANGED <<envVars, token, results, calls, mark, response, nextFile,
                   callFiles, returned, ready_path, pollVars, nCalls>>

\* What lines 84-85 end with for response r: the exception raised, or None
\* when response.json() returns.
PostErrorChecked(r) ==
    IF r.net THEN "ConnectionError"
    ELSE IF RaisesForStatus(r.status) THEN "HTTPError"
    ELSE IF ~JsonValid(r.body) THEN "JSONDecodeError"
    ELSE None
PostError(r) ==
    IF r.net THEN "ConnectionError"
    ELSE IF ~JsonValid(r.body) THEN "JSONDecodeError"
    ELSE None

\* Lines 84-88: one POST to capture/{side}; the parsed body is returned,
\* whatever the status; the finally block removes the temporary file.
upload_post ==
    /\ pc = "upload_84"
    /\ \E r \in Responses(CaptureBodies) :
        /\ calls' = Append(calls, LogEntry("capture", r))
        /\ response' = r
        /\ IF PostError(r) # None
           THEN Raise("upload", PostError(r))
           ELSE Return("upload", Json(r.body))
    /\ files' = Finally(ready_path, files)
    /\ UNCHANGED <<envVars, token, results, mark, nextFile, callFiles,
                   returned, ready_path, pollVars, nCalls>>

\* ---------------------------------------------- poll_verification_scores

\* range(max_retries) still has a value for the loop variable (line 98).
LoopContinuesShort(k, n) == k + 1 < n
LoopContinues(k, n) == k < n

\* The status the poller takes for success (line 100).
IsReadyAny2xx(s) == SuccessStatus(s)
IsReady(s) == s = 200

\* 2 ** i, the wait after failed attempt i (line 102).
BackoffLinear(k) == 2 * k
Backoff(k) == 2 ^ k

\* Lines 98-101: one GET to results/{session_token}; a 200 returns the
\* parsed body, any other status goes on to the sleep.
poll_request ==
    /\ pc = "poll_98"
    /\ LoopContinues(i, max_retries)
    /\ \E r \in Responses(ResultBodies) :
        /\ calls' = Append(calls, LogEntry("results", r))
        /\ response' = r
        /\ IF r.net THEN Raise("poll", "ConnectionError")
           ELSE IF IsReady(r.status)
           THEN IF JsonValid(r.body)
                THEN Return("poll", Json(r.body))
                ELSE Raise("poll", "JSONDecodeError")
           ELSE /\ pc' = "poll_102"
                /\ UNCHANGED <<ended, error, ret, completed>>
    /\ UNCHANGED <<envVars, token, results, mark, uploadVars, pollVars, nCalls>>

\* Line 102: time.sleep(2 ** i), then the next value of i.
poll_sleep ==
    /\ pc = "poll_102"
    /\ sleeps' = Append(sleeps, Backoff(i))
    /\ i' = i + 1
    /\ pc' = "poll_98"
    /\ UNCHANGED <<envVars, ended, error, ret, token, results, calls, mark,
                   response, uploadVars, completed, max_retries, nCalls>>

\* Line 103: the loop is exhausted, None is returned.
poll_exhausted ==
    /\ pc = "poll_98"
    /\ ~LoopContinues(i, max_retries)
    /\ Return("poll", None)
    /\ UNCHANGED <<envVars, token, results, calls, mark, response, uploadVars,
                   pollVars, nCalls>>

\* Entry of poll_verification_scores(session_token, n) (lines 90-98).
EnterPoll(n) ==
    /\ Enter("poll_98")
    /\ max_retries' = n
    /\ i' = 0
    /\ sleeps' = <<>>
    /\ UNCHANGED <<envVars, token, results, calls, response, uploadVars>>

\* Entry of upload_document_resource (lines 58-67).
EnterUpload ==
    /\ Enter("upload_70")
    /\ callFiles' = {}
    /\ ready_path' = None
    /\ UNCHANGED <<envVars, token, results, calls, response, files, nextFile,
                   returned, pollVars>>

\* Entry of start_verification_session (lines 49-52).
EnterStart ==
    /\ Enter("start_54")
    /\ UNCHANGED <<envVars, token, results, calls, response, uploadVars,
                   pollVars>>

\* ------------------------------------------------------------- __main__

\* Line 111: the driver starts a session.
MainStart ==
    /\ pc = "main_111"
    /\ EnterStart
    /\ UNCHANGED nCalls

\* The guard of line 112.
TokenObtainedAlways(t) == TRUE
TokenObtained(t) == Truthy(t)

\* Lines 112-114: with a token, the driver uploads one document.
MainUpload ==
    /\ pc = "main_112"
    /\ TokenObtained(token)
    /\ EnterUpload
    /\ UNCHANGED nCalls

\* Line 112, no token: the driver is done.
MainNoToken ==
    /\ pc = "main_112"
    /\ ~TokenObtained(token)
    /\ pc' = "exit"
    /\ UNCHANGED <<envVars, ended, error, ret, token, results, calls, mark,
                   response, uploadVars, completed, pollVars, nCalls>>

\* Lines 115-116: after the upload, the driver polls with the default budget.
MainPoll ==
    /\ pc = "main_115"
    /\ EnterPoll(DefaultMaxRetries)
    /\ UNCHANGED nCalls

\* Lines 116-117: the poller's value is the driver's results.
MainResultsDropped ==
    /\ pc = "main_117"
    /\ results' = None
    /\ pc' = "exit"
    /\ UNCHANGED <<envVars, ended, error, ret, token, calls, mark, response,
                   uploadVars, completed, pollVars, nCalls>>
MainResults ==
    /\ pc = "main_117"
    /\ results' = ret
    /\ pc' = "exit"
    /\ UNCHANGED <<envVars, ended, error, ret, token, calls, mark, response,
                   uploadVars, completed, pollVars, nCalls>>

\* ------------------------------------------------- an importing caller

\* A caller of the imported module calls start_verification_session().
CallStart ==
    /\ pc = "idle"
    /\ nCalls < MaxCalls
    /\ nCalls' = nCalls + 1
    /\ EnterStart

\* A caller calls upload_document_resource(session_token, image_path).
CallUpload ==
    /\ pc = "idle"
    /\ nCalls < MaxCalls
    /\ nCalls' = nCalls + 1
    /\ EnterUpload

\* A caller calls poll_verification_scores(session_token, n).
CallPoll ==
    /\ pc = "idle"
    /\ nCalls < MaxCalls
    /\ nCalls' = nCalls + 1
    /\ \E n \in 0..MaxRetries : EnterPoll(n)

\* ------------------------------------------------------- specification

Next ==
    \/ LoadConfig
    \/ MainStart
    \/ MainUpload
    \/ MainNoToken
    \/ MainPoll
    \/ MainResults
    \/ CallStart
    \/ CallUpload
    \/ CallPoll
    \/ start_verification_session
    \/ optimise_payload
    \/ upload_read
    \/ upload_post
    \/ poll_request
    \/ poll_sleep
    \/ poll_exhausted

Spec == Init /\ [][Next]_vars

\* ---------------------------------------------------------- properties

RECURSIVE Sum(_)
Sum(s) == IF s = <<>> THEN 0 ELSE Head(s) + Sum(Tail(s))

\* <<1, 2, 4, ..., 2^(n-1)>>
Doubling(n) == [k \in 1..n |-> 2 ^ (k - 1)]

Endpoints == [k \in DOMAIN calls |-> calls[k].ep]
LastRequest == Requests[Len(Requests)]
InUpload == pc \in {"upload_70", "upload_73", "upload_84"}
Main == name = "__main__"

\* Every request of the call was answered, and with a status other than 200.
AllNon200 ==
    \A k \in DOMAIN Requests : ~Requests[k].net /\ Requests[k].status # 200

\* C1: in every state in which upload_document_resource has just ended, no
\* temporary file created during that call exists, also when optimise_payload
\* failed at img.save after NamedTemporaryFile had created the file.
C1_AllTempFilesRemoved ==
    ended = "upload" => callFiles \cap files = {}

\* C2: whenever optimise_payload returned a path, that file is gone when
\* upload_document_resource has returned or raised, whatever the capture
\* request came back with; outside an upload call no file whose path
\* optimise_payload returned exists, after any number of calls.
C2_ReturnedPathDeleted ==
    /\ (ended = "upload" /\ ready_path # None) => ready_path \notin files
    /\ ~InUpload => returned \cap files = {}

C2_Witness ==
    /\ ended = "upload"
    /\ ready_path # None
    /\ error = "ConnectionError"
    /\ Cardinality(returned) = 2
    /\ Len(calls) = 2
    /\ ~calls[1].net
    /\ calls[1].ep = "capture"

\* C3: a poll call whose every response had a status other than 200 made
\* exactly max_retries requests, slept 2^i after failed attempt i for
\* i = 0..max_retries-1, 2^max_retries - 1 in all, and returned None.
C3_ExhaustedBackoff ==
    (ended = "poll" /\ AllNon200) =>
        /\ Len(Requests) = max_retries
        /\ sleeps = Doubling(max_retries)
        /\ Sum(sleeps) = 2 ^ max_retries - 1
        /\ error = None
        /\ ret = None

C3_Witness ==
    /\ ended = "poll"
    /\ AllNon200
    /\ max_retries = DefaultMaxRetries
    /\ Len(Requests) = 5
    /\ sleeps = <<1, 2, 4, 8, 16>>
    /\ ret = None
    /\ \E k \in DOMAIN Requests : Requests[k].status = 202
    /\ \E k \in DOMAIN Requests : Requests[k].status = 500

C4_WitnessFirstAttempt ==
    /\ ended = "poll"
    /\ Len(Requests) = 1
    /\ LastRequest.status = 200
    /\ sleeps = <<>>
    /\ ret = "dict(score=97)"

\* C5: with IDENTITY_VENDOR_KEY or PII_ENCRYPTION_KEY missing or empty, the
\* process gets no further than the EnvironmentError of line 29, and no
\* request is ever sent to the vendor.
C5_NoCallWithoutCredentials ==
    (apiKey \in {None, ""} \/ encKey \in {None, ""}) =>
        /\ calls = <<>>
        /\ pc \in {"load", "crashed"}
        /\ pc = "crashed" => error = "EnvironmentError"

C5_Witness ==
    /\ pc = "crashed"
    /\ error = "EnvironmentError"
    /\ apiKey = ""
    /\ encKey = GoodFernetKey
    /\ calls = <<>>

\* The driver's run saw: a token from sessions/start, a 200 answer to a
\* capture request, a 200 answer to the first results request.
HappyResponses ==
    /\ token \notin {None, ""}
    /\ \E k \in DOMAIN calls :
        calls[k].ep = "capture" /\ ~calls[k].net /\ calls[k].status = 200
    /\ \E k \in DOMAIN calls :
        /\ calls[k].ep = "results" /\ ~calls[k].net /\ calls[k].status = 200
        /\ \A j \in 1..(k - 1) : calls[j].ep # "results"

\* C6: a driver run that got a token, a 200 JSON body from capture and a 200
\* body from the first results poll made exactly the three requests
\* sessions/start, capture, results, in that order, and its results are the
\* parsed body of the results response.
C6_HappyPath ==
    (Main /\ pc = "exit" /\ HappyResponses) =>
        /\ Endpoints = <<"sessions/start", "capture", "results">>
        /\ error = None
        /\ JsonValid(response.body)
        /\ results = Json(response.body)

C6_Witness ==
    /\ Main
    /\ pc = "exit"
    /\ HappyResponses
    /\ token = "abc123"
    /\ Len(calls) = 3
    /\ results = "dict(score=97)"

\* The ways a poll call ends.
PollSucceeded ==
    /\ error = None
    /\ Requests # <<>>
    /\ ~LastRequest.net
    /\ LastRequest.status = 200
    /\ JsonValid(response.body)
    /\ ret = Json(response.body)
PollExhausted ==
    /\ error = None
    /\ ret = None
    /\ Len(Requests) = max_retries
    /\ AllNon200
PollRaisedNetwork ==
    /\ error = "ConnectionError"
    /\ Requests # <<>>
    /\ LastRequest.net
PollRaisedParse ==
    /\ error = "JSONDecodeError"
    /\ Requests # <<>>
    /\ ~LastRequest.net
    /\ LastRequest.status = 200
    /\ ~JsonValid(response.body)

\* C7, as claimed: a poll call ends in exactly one of two ways, with the body
\* of a 200 response or with None after max_retries attempts, and never with
\* an exception.
C7_TwoEndings ==
    ended = "poll" =>
        /\ PollSucceeded \/ PollExhausted
        /\ ~(PollSucceeded /\ PollExhausted)

\* C7, amended: a poll call ends in exactly one of four ways: it returns the
\* body of a 200 response, it returns None after max_retries attempts none
\* of which was answered with 200, it raises the network error of a results
\* request, or it raises the parse error of a 200 response whose body is not
\* JSON.  In each case every earlier request of the call was answered with a
\* status other than 200, and no more than max_retries requests were made.
C7_FourEndings ==
    ended = "poll" =>
        /\ Cardinality({w \in {"succeeded", "exhausted", "network", "parse"} :
               \/ w = "succeeded" /\ PollSucceeded
               \/ w = "exhausted" /\ PollExhausted
               \/ w = "network" /\ PollRaisedNetwork
               \/ w = "parse" /\ PollRaisedParse}) = 1
        /\ Len(Requests) <= max_retries
        /\ \A k \in 1..(Len(Requests) - 1) :
               ~Requests[k].net /\ Requests[k].status # 200
        /\ Len(sleeps) = IF PollExhausted THEN Len(Requests) ELSE Len(Requests) - 1

C7_Witness ==
    /\ ended = "poll"
    /\ PollRaisedNetwork
    /\ Len(Requests) = 2
    /\ sleeps = <<1>>

\* C8: when optimise_payload returned None, upload_document_resource ends
\* with the TypeError of the file read, having sent no request; in the driver
\* the process dies there and no results request is ever made.
C8_OptimiserFailureAborts ==
    (ended = "upload" /\ ready_path = None) =>
        /\ error = "TypeError"
        /\ Requests = <<>>
        /\ \A k \in DOMAIN calls : Main => calls[k].ep = "sessions/start"
        /\ Main => pc = "crashed"

C8_Witness ==
    /\ Main
    /\ ended = "upload"
    /\ ready_path = None
    /\ pc = "crashed"
    /\ error = "TypeError"
    /\ Len(calls) = 1

\* C9: in the driver, a capture or results request is made only after
\* sessions/start was answered without raising and gave a non-empty token,
\* and a results request only after the upload call has returned; when
\* session start raised or gave no token, sessions/start is the only request.
C9_Sequencing ==
    Main =>
        /\ \A k \in DOMAIN calls :
            calls[k].ep \in {"capture", "results"} =>
                /\ k > 1
                /\ calls[1].ep = "sessions/start"
                /\ ~calls[1].net
                /\ ~RaisesForStatus(calls[1].status)
                /\ "start" \in completed
                /\ token \notin {None, ""}
                /\ calls[k].ep = "results" =>
                    /\ "upload" \in completed
                    /\ \E j \in 1..(k - 1) : calls[j].ep = "capture"
        /\ ((ended = "start" /\ error # None)
              \/ ("start" \in completed /\ token \in {None, ""})) =>
            /\ Len(calls) = 1
            /\ pc \in {"crashed", "main_112", "exit"}

C9_Witness ==
    /\ Main
    /\ pc = "exit"
    /\ "start" \in completed
    /\ token = None
    /\ Endpoints = <<"sessions/start">>

C9_WitnessRaised ==
    /\ Main
    /\ pc = "crashed"
    /\ ended = "start"
    /\ error = "HTTPError"
    /\ Endpoints = <<"sessions/start">>

\* An upload call has just ended whose capture request was answered with a
\* status outside 2xx.
CaptureRejected ==
    /\ ended = "upload"
    /\ Requests # <<>>
    /\ ~LastRequest.net
    /\ ~SuccessStatus(LastRequest.status)

\* C10, as claimed: when the capture endpoint answers with a non-success
\* status, upload_document_resource does not raise and returns the parsed
\* body, and the driver goes on to poll.
C10_RejectedUploadReturns ==
    CaptureRejected =>
        /\ error = None
        /\ JsonValid(response.body)
        /\ ret = Json(response.body)
        /\ Main => pc = "main_115"

\* C10, amended: when the capture endpoint answers with a non-success status
\* and a body that is JSON, upload_document_resource returns the parsed body
\* and the driver goes on to poll; when the body is not JSON, response.json()
\* raises, and the driver dies without polling.
C10_RejectedJsonUploadReturns ==
    /\ CaptureRejected =>
        IF JsonValid(response.body)
        THEN /\ error = None
             /\ ret = Json(response.body)
             /\ Main => pc = "main_115"
        ELSE /\ error = "JSONDecodeError"
             /\ Main => pc = "crashed"
    /\ (Main /\ pc \in {"main_117", "exit"} /\ "upload" \in completed) =>
        \E k \in DOMAIN calls : calls[k].ep = "results"

C10_Witness ==
    /\ Main
    /\ CaptureRejected
    /\ pc = "main_115"
    /\ response.status = 500
    /\ ret = "dict(error='rejected')"

====
